---- MODULE Spec2Model ----
(***************************************************************************)
(* Model of stress-mergesort.c: the non-libc merge sort                    *)
(* (mergesort_copy, mergesort_partition4, mergesort_partition,             *)
(* mergesort_nonlibc), its driver stress_mergesort with the SIGALRM        *)
(* handler, the NUMA node discovery (hex_to_int,                           *)
(* stress_numa_get_mem_nodes) and the NUMA stressor stress_numa with       *)
(* stress_numa_free_nodes.                                                 *)
(*                                                                         *)
(* Memory is modelled as sequences of bytes; a pointer is a byte offset    *)
(* into the region it points into (offset o is element o + 1).             *)
(***************************************************************************)
EXTENDS Integers, Sequences, FiniteSets, TLC

\* ------------------------------------------------------------------ bounds
\* largest record count of a sort call
MaxN == 4
\* records are drawn from the values 0..MaxRec (key = v \div 2, tag = v % 2)
MaxRec == 2
\* size in bytes of a page of the scaled-down address space: a mapping is
\* rounded up to a multiple of it
PageBytes == 8
\* largest record count the driver sorts, and its budget of bogo operations
DrvMaxN == 3
MaxOps == 2
\* longest Mems_allowed mask text, in characters
MaxMaskLen == 2
\* a run of stress_numa: longest mask text, most pages of the buffer, and
\* its budget of bogo operations
MaxRunMaskLen == 1
MaxPages == 2
MaxRunOps == 3

VARIABLES ms, mg, drv, nm

vars == <<ms, mg, drv, nm>>

\* ------------------------------------------------------------- byte memory
Zeros(n) == [k \in 1..n |-> 0]

\* the `size` bytes at byte offset `off` of `mem`
Bytes(mem, off, size) == [k \in 1..size |-> mem[off + k]]

\* a record of `size` bytes: byte 0 is the key, byte 1 the tag, the rest 0
RecBytes(v, size) == [k \in 1..size |-> IF k = 1 THEN v \div 2 ELSE IF k = 2 THEN v % 2 ELSE 0]

RecVals(size) == {RecBytes(v, size) : v \in 0..MaxRec}

RECURSIVE Flatten(_)
Flatten(recs) == IF recs = <<>> THEN <<>> ELSE Head(recs) \o Flatten(Tail(recs))

\* record `idx` (0-based) of a byte region holding `size`-byte records
RecAt(mem, idx, size) == Bytes(mem, idx * size, size)

\* the records idx 0..n-1 of a byte region, as a sequence of records
RecSeq(mem, n, size) == [i \in 1..n |-> RecAt(mem, i - 1, size)]

\* IDX(base, idx, size)
IDX(base, idx, size) == base + (idx * size)

\* mergesort_copy(p1 + d, p2 + s, size): a word-at-a-time loop when size is
\* exactly 4 (one 32 bit word), a byte-at-a-time loop otherwise
MergesortCopyShort(dst, d, src, s, size) ==
    IF size = 4
    THEN [k \in DOMAIN dst |-> IF (k - 1 >= d) /\ (k - 1 < d + 4) THEN src[s + (k - d)] ELSE dst[k]]
    ELSE [k \in DOMAIN dst |-> IF (k - 1 >= d) /\ (k - 1 < d + size - 1) THEN src[s + (k - d)] ELSE dst[k]]

MergesortCopy(dst, d, src, s, size) ==
    IF size = 4
    THEN [k \in DOMAIN dst |-> IF (k - 1 >= d) /\ (k - 1 < d + 4) THEN src[s + (k - d)] ELSE dst[k]]
    ELSE [k \in DOMAIN dst |-> IF (k - 1 >= d) /\ (k - 1 < d + size) THEN src[s + (k - d)] ELSE dst[k]]

\* *(uint32_t *)(dst + d) = *(uint32_t *)(src + s)
Store32(dst, d, src, s) ==
    [k \in DOMAIN dst |-> IF (k - 1 >= d) /\ (k - 1 < d + 4) THEN src[s + (k - d)] ELSE dst[k]]

\* ------------------------------------------------------------- comparators
Sign(x) == IF x < 0 THEN -1 ELSE IF x > 0 THEN 1 ELSE 0

\* the int32_t stored little-endian in 4 bytes
Int32(b) ==
    LET top == IF b[4] >= 128 THEN b[4] - 256 ELSE b[4]
    IN  b[1] + (256 * b[2]) + (65536 * b[3]) + (16777216 * top)

\* the comparators a caller passes: the driver's stress_sort_cmp_fwd_int32
\* and stress_sort_cmp_rev_int32 (total orders on 4 byte records), and two
\* strict weak orders that look at the key byte only and ignore the rest
Compar(name, a, b) ==
    CASE name = "fwd_int32" -> Sign(Int32(a) - Int32(b))
      [] name = "rev_int32" -> Sign(Int32(b) - Int32(a))
      [] name = "fwd_key"   -> Sign(a[1] - b[1])
      [] name = "rev_key"   -> Sign(b[1] - a[1])

Comparators(size) ==
    IF size = 4 THEN {"fwd_int32", "rev_int32", "fwd_key", "rev_key"}
    ELSE {"fwd_key", "rev_key"}

\* the record sizes: 4 takes mergesort_partition4, any other size (here 2)
\* takes mergesort_partition
Sizes == {4, 2}

\* ---------------------------------------------------------- the sort call
\* One activation of mergesort_partition4 / mergesort_partition: its
\* arguments left and right, its position st, and its locals (pointers are
\* byte offsets: lhs, rhs, lhs_end, rhs_end into the scratch region, base
\* into the caller's buffer).
NewFrame(left, right) ==
    [left |-> left, right |-> right, st |-> "start",
     lhs |-> 0, rhs |-> 0, base |-> 0, lhs_end |-> 0, rhs_end |-> 0]

Top(m) == m.stack[Len(m.stack)]

\* mid = left + ((right - left) >> 1)
Mid(f) == f.left + ((f.right - f.left) \div 2)

\* a mapping of `bytes` bytes covers whole pages
MmapLen(bytes) == ((bytes + PageBytes - 1) \div PageBytes) * PageBytes

\* The state of a call mergesort_nonlibc(base, nmemb, size, compar) that has
\* not started: data is the caller's memory at base (the nmemb records of
\* the buffer followed by the `size` bytes that lie after the buffer).
\* in0, log, rd, wr record the call's history: the buffer on entry, the
\* comparator calls, and the scratch records read by the comparator and the
\* buffer records written, each with the range [left, right] being merged.
SortCall(recs, after, size, compar) ==
    [pc |-> "call", data |-> Flatten(recs) \o after, lhs |-> <<>>,
     nmemb |-> Len(recs), size |-> size, compar |-> compar,
     stack |-> <<>>, ret |-> 0, mapped |-> FALSE, failed |-> FALSE, err |-> "",
     in0 |-> recs, log |-> <<>>, rd |-> {}, wr |-> {}]

\* the nmemb records of the caller's buffer as they stand
Out(m) == RecSeq(m.data, m.nmemb, m.size)

Idle == [pc |-> "idle"]

\* --------------------------------------------------- mergesort_partition4
\* the frame on top of the stack replaced by f
SetTop(m, f) == [m EXCEPT !.stack[Len(m.stack)] = f]

\* the call returns to its caller: the activation is popped; when it was
\* the outermost one, mergesort_nonlibc goes on to munmap
Return(m) ==
    LET rest == SubSeq(m.stack, 1, Len(m.stack) - 1)
    IN  [m EXCEPT !.stack = rest, !.pc = IF rest = <<>> THEN "unmap" ELSE "run"]

\* the record indexes (0-based) covered by n bytes at byte offset off
RecsOf(off, n, size) == {i \in 0..(MaxN + 1) : (i * size < off + n) /\ (off < (i + 1) * size)}

\* the comparator's verdict that sends the merge to its left branch
TakeLeftOrEqual(c) == c <= 0

TakeLeft(c) == c < 0

\* the test that ends the merge loop after a pointer has been advanced
PastEndEarly(p, end) == p >= end

PastEnd(p, end) == p > end

\* line 85: if (left < mid) mergesort_partition4(base, lhs, left, mid, compar)
P4AtLeft(f) == (f.st = "start") /\ (f.left < Mid(f))

\* line 87: if (mid + 1 < right) mergesort_partition4(base, lhs, mid + 1, right, compar)
P4AtRight(f) ==
    /\ (f.st = "left_done") \/ ((f.st = "start") /\ ~(f.left < Mid(f)))
    /\ Mid(f) + 1 < f.right

\* line 90: both recursive calls are behind, the merge of [left, right] starts
P4AtMerge(f) ==
    \/ f.st = "right_done"
    \/ (f.st = "left_done") /\ ~(Mid(f) + 1 < f.right)
    \/ (f.st = "start") /\ ~(f.left < Mid(f)) /\ ~(Mid(f) + 1 < f.right)

P4RecurseLeft(m) ==
    LET f == Top(m)
    IN  [SetTop(m, [f EXCEPT !.st = "left_done"]) EXCEPT
            !.stack = Append(@, NewFrame(f.left, Mid(f)))]

P4RecurseRight(m) ==
    LET f == Top(m)
    IN  [SetTop(m, [f EXCEPT !.st = "right_done"]) EXCEPT
            !.stack = Append(@, NewFrame(Mid(f) + 1, f.right))]

\* lines 90-103: both runs are copied to the scratch region, the left run to
\* its start and the right run behind it, and the pointers are set up
P4CopyIn(m) ==
    LET f        == Top(m)
        mid      == Mid(f)
        lhs_len  == mid - f.left + 1
        rhs_len  == f.right - mid
        lhs_size == lhs_len * 4
        rhs_size == rhs_len * 4
        rhs      == 0 + lhs_size
        s1       == MergesortCopy(m.lhs, 0, m.data, IDX(0, f.left, 4), lhs_size)
        s2       == MergesortCopy(s1, rhs, m.data, IDX(0, mid + 1, 4), rhs_size)
    IN  [SetTop(m, [f EXCEPT !.st = "loop", !.lhs = 0, !.rhs = rhs,
                             !.base = IDX(0, f.left, 4),
                             !.lhs_end = rhs, !.rhs_end = rhs + rhs_size])
         EXCEPT !.lhs = s2]

\* the 4 byte merge loop with ties going to the left run
P4IterTieLeft(m, beyond) ==
    LET f   == Top(m)
        mem == m.lhs \o beyond
        l   == Bytes(mem, f.lhs, 4)
        r   == Bytes(mem, f.rhs, 4)
        c   == Compar(m.compar, l, r)
        m1  == [m EXCEPT !.log = Append(@, <<l, r>>),
                         !.rd = @ \cup {<<f.left, f.right, f.lhs \div 4>>,
                                        <<f.left, f.right, f.rhs \div 4>>},
                         !.wr = @ \cup {<<f.left, f.right, f.base \div 4>>}]
    IN  IF c <= 0
        THEN LET d  == Store32(m.data, f.base, mem, f.lhs)
                 p  == f.lhs + 4
                 f1 == IF PastEnd(p, f.lhs_end)
                       THEN [f EXCEPT !.lhs = p, !.st = "tail"]
                       ELSE [f EXCEPT !.lhs = p, !.base = f.base + 4]
             IN  SetTop([m1 EXCEPT !.data = d], f1)
        ELSE LET d  == Store32(m.data, f.base, mem, f.rhs)
                 p  == f.rhs + 4
                 f1 == IF PastEnd(p, f.rhs_end)
                       THEN [f EXCEPT !.rhs = p, !.st = "tail"]
                       ELSE [f EXCEPT !.rhs = p, !.base = f.base + 4]
             IN  SetTop([m1 EXCEPT !.data = d], f1)

\* lines 105-119, one turn of the merge loop. `beyond` is what the bytes
\* behind the end of the mapping read as: mem is the memory the scratch
\* pointer sees.
P4Iter(m, beyond) ==
    LET f   == Top(m)
        mem == m.lhs \o beyond
        l   == Bytes(mem, f.lhs, 4)
        r   == Bytes(mem, f.rhs, 4)
        c   == Compar(m.compar, l, r)
        m1  == [m EXCEPT !.log = Append(@, <<l, r>>),
                         !.rd = @ \cup {<<f.left, f.right, f.lhs \div 4>>,
                                        <<f.left, f.right, f.rhs \div 4>>},
                         !.wr = @ \cup {<<f.left, f.right, f.base \div 4>>}]
    IN  IF TakeLeft(c)
        THEN LET d  == Store32(m.data, f.base, mem, f.lhs)
                 p  == f.lhs + 4
                 f1 == IF PastEnd(p, f.lhs_end)
                       THEN [f EXCEPT !.lhs = p, !.st = "tail"]
                       ELSE [f EXCEPT !.lhs = p, !.base = f.base + 4]
             IN  SetTop([m1 EXCEPT !.data = d], f1)
        ELSE LET d  == Store32(m.data, f.base, mem, f.rhs)
                 p  == f.rhs + 4
                 f1 == IF PastEnd(p, f.rhs_end)
                       THEN [f EXCEPT !.rhs = p, !.st = "tail"]
                       ELSE [f EXCEPT !.rhs = p, !.base = f.base + 4]
             IN  SetTop([m1 EXCEPT !.data = d], f1)

\* lines 121-129: what is left of either run is copied in one piece, and
\* the function returns
P4Tail(m) ==
    LET f  == Top(m)
        n1 == f.lhs_end - f.lhs
        d1 == IF n1 > 0 THEN MergesortCopy(m.data, f.base, m.lhs, f.lhs, n1) ELSE m.data
        b1 == IF n1 > 0 THEN f.base + n1 ELSE f.base
        w1 == IF n1 > 0 THEN {<<f.left, f.right, i>> : i \in RecsOf(f.base, n1, 4)} ELSE {}
        n2 == f.rhs_end - f.rhs
        d2 == IF n2 > 0 THEN MergesortCopy(d1, b1, m.lhs, f.rhs, n2) ELSE d1
        w2 == IF n2 > 0 THEN {<<f.left, f.right, i>> : i \in RecsOf(b1, n2, 4)} ELSE {}
    IN  Return([m EXCEPT !.data = d2, !.wr = @ \cup w1 \cup w2])

\* ---------------------------------------------------- mergesort_partition
\* line 149: if (left < mid) mergesort_partition(base, lhs, left, mid, size, compar)
PAtLeft(f) == (f.st = "start") /\ (f.left < Mid(f))

\* line 151: if (mid + 1 < right) mergesort_partition(base, lhs, mid + 1, right, size, compar)
PAtRight(f) ==
    /\ (f.st = "left_done") \/ ((f.st = "start") /\ ~(f.left < Mid(f)))
    /\ Mid(f) + 1 < f.right

\* line 154: both recursive calls are behind, the merge of [left, right] starts
PAtMerge(f) ==
    \/ f.st = "right_done"
    \/ (f.st = "left_done") /\ ~(Mid(f) + 1 < f.right)
    \/ (f.st = "start") /\ ~(f.left < Mid(f)) /\ ~(Mid(f) + 1 < f.right)

PRecurseLeft(m) ==
    LET f == Top(m)
    IN  [SetTop(m, [f EXCEPT !.st = "left_done"]) EXCEPT
            !.stack = Append(@, NewFrame(f.left, Mid(f)))]

PRecurseRight(m) ==
    LET f == Top(m)
    IN  [SetTop(m, [f EXCEPT !.st = "right_done"]) EXCEPT
            !.stack = Append(@, NewFrame(Mid(f) + 1, f.right))]

\* lines 154-167
PCopyIn(m) ==
    LET f        == Top(m)
        size     == m.size
        mid      == Mid(f)
        lhs_len  == mid - f.left + 1
        rhs_len  == f.right - mid
        lhs_size == lhs_len * size
        rhs_size == rhs_len * size
        rhs      == 0 + lhs_size
        s1       == MergesortCopy(m.lhs, 0, m.data, IDX(0, f.left, size), lhs_size)
        s2       == MergesortCopy(s1, rhs, m.data, IDX(0, mid + 1, size), rhs_size)
    IN  [SetTop(m, [f EXCEPT !.st = "loop", !.lhs = 0, !.rhs = rhs,
                             !.base = IDX(0, f.left, size),
                             !.lhs_end = rhs, !.rhs_end = rhs + rhs_size])
         EXCEPT !.lhs = s2]

\* lines 169-183, one turn of the merge loop
PIter(m, beyond) ==
    LET f    == Top(m)
        size == m.size
        mem  == m.lhs \o beyond
        l    == Bytes(mem, f.lhs, size)
        r    == Bytes(mem, f.rhs, size)
        c    == Compar(m.compar, l, r)
        m1   == [m EXCEPT !.log = Append(@, <<l, r>>),
                          !.rd = @ \cup {<<f.left, f.right, f.lhs \div size>>,
                                         <<f.left, f.right, f.rhs \div size>>},
                          !.wr = @ \cup {<<f.left, f.right, f.base \div size>>}]
    IN  IF TakeLeft(c)
        THEN LET d  == MergesortCopy(m.data, f.base, mem, f.lhs, size)
                 p  == f.lhs + size
                 f1 == IF PastEnd(p, f.lhs_end)
                       THEN [f EXCEPT !.lhs = p, !.st = "tail"]
                       ELSE [f EXCEPT !.lhs = p, !.base = f.base + size]
             IN  SetTop([m1 EXCEPT !.data = d], f1)
        ELSE LET d  == MergesortCopy(m.data, f.base, mem, f.rhs, size)
                 p  == f.rhs + size
                 f1 == IF PastEnd(p, f.rhs_end)
                       THEN [f EXCEPT !.rhs = p, !.st = "tail"]
                       ELSE [f EXCEPT !.rhs = p, !.base = f.base + size]
             IN  SetTop([m1 EXCEPT !.data = d], f1)

\* lines 185-192
PTail(m) ==
    LET f    == Top(m)
        size == m.size
        n1   == f.lhs_end - f.lhs
        d1   == IF n1 > 0 THEN MergesortCopy(m.data, f.base, m.lhs, f.lhs, n1) ELSE m.data
        b1   == IF n1 > 0 THEN f.base + n1 ELSE f.base
        w1   == IF n1 > 0 THEN {<<f.left, f.right, i>> : i \in RecsOf(f.base, n1, size)} ELSE {}
        n2   == f.rhs_end - f.rhs
        d2   == IF n2 > 0 THEN MergesortCopy(d1, b1, m.lhs, f.rhs, n2) ELSE d1
        w2   == IF n2 > 0 THEN {<<f.left, f.right, i>> : i \in RecsOf(b1, n2, size)} ELSE {}
    IN  Return([m EXCEPT !.data = d2, !.wr = @ \cup w1 \cup w2])

\* ------------------------------------------------------ mergesort_nonlibc
\* lines 204-207: stress_mmap_populate(NULL, mmap_size, ...) gave a fresh
\* anonymous mapping: whole pages, zero filled
MmapOk(m) ==
    [m EXCEPT !.pc = "switch", !.mapped = TRUE,
              !.lhs = Zeros(MmapLen(m.nmemb * m.size))]

\* the failure is detected but reported as success
MmapFailedReturnsZero(m) ==
    [m EXCEPT !.pc = "done", !.ret = 0, !.failed = TRUE,
              !.err = IF m.nmemb * m.size = 0 THEN "EINVAL" ELSE "ENOMEM"]

\* lines 208-209: the mapping failed (a zero length is refused with EINVAL,
\* any length can be refused for want of memory), return -1
MmapFailed(m) ==
    [m EXCEPT !.pc = "done", !.ret = -1, !.failed = TRUE,
              !.err = IF m.nmemb * m.size = 0 THEN "EINVAL" ELSE "ENOMEM"]

\* lines 211-218: switch (size), the call of the partition function with
\* left = 0 and right = nmemb - 1
Switch(m) == [m EXCEPT !.pc = "run", !.stack = <<NewFrame(0, m.nmemb - 1)>>]

\* lines 219-220: munmap and return 0
MunmapSkipped(m) == [m EXCEPT !.pc = "done", !.ret = 0, !.lhs = <<>>]

Munmap(m) == [m EXCEPT !.pc = "done", !.ret = 0, !.mapped = FALSE, !.lhs = <<>>]

\* the path switch (size) takes: case 4 or default
UsesPartition4(m) == m.size = 4

\* what the memory behind the end of the mapping may read as, when the
\* merge loop's pointers lhs or rhs reach it
Running(m) == (m.pc = "run") /\ (m.stack # <<>>)

ReadsBeyond(m) ==
    /\ Running(m) /\ (Top(m).st = "loop")
    /\ \/ Top(m).lhs + m.size > Len(m.lhs)
       \/ Top(m).rhs + m.size > Len(m.lhs)

BeyondVals(m) == IF ReadsBeyond(m) THEN RecVals(m.size) ELSE {Zeros(m.size)}

\* ------------------------------------------------- actions of a sort call
\* the bytes that lie behind the caller's buffer
After(size) == [k \in 1..size |-> 255]

\* every buffer of 0..MaxN records
RECURSIVE Buffers(_, _)
Buffers(n, size) ==
    IF n = 0 THEN {<<>>}
    ELSE LET shorter == Buffers(n - 1, size)
         IN  shorter \cup {Append(b, r) : b \in {x \in shorter : Len(x) = n - 1}, r \in RecVals(size)}

SortCallsOf(size) ==
    {SortCall(recs, After(size), size, compar) :
        recs \in Buffers(MaxN, size), compar \in Comparators(size)}

SortCalls == UNION {SortCallsOf(size) : size \in Sizes}

SortMmapOk ==
    /\ ms.pc = "call"
    /\ ms.nmemb * ms.size > 0
    /\ ms' = MmapOk(ms)
    /\ UNCHANGED <<mg, drv, nm>>

SortMmapFailed ==
    /\ ms.pc = "call"
    /\ ms' = MmapFailed(ms)
    /\ UNCHANGED <<mg, drv, nm>>

SortSwitch ==
    /\ ms.pc = "switch"
    /\ ms' = Switch(ms)
    /\ UNCHANGED <<mg, drv, nm>>

SortP4RecurseLeft ==
    /\ Running(ms) /\ UsesPartition4(ms) /\ P4AtLeft(Top(ms))
    /\ ms' = P4RecurseLeft(ms)
    /\ UNCHANGED <<mg, drv, nm>>

SortP4RecurseRight ==
    /\ Running(ms) /\ UsesPartition4(ms) /\ P4AtRight(Top(ms))
    /\ ms' = P4RecurseRight(ms)
    /\ UNCHANGED <<mg, drv, nm>>

SortP4CopyIn ==
    /\ Running(ms) /\ UsesPartition4(ms) /\ P4AtMerge(Top(ms))
    /\ ms' = P4CopyIn(ms)
    /\ UNCHANGED <<mg, drv, nm>>

SortP4Iter ==
    /\ Running(ms) /\ UsesPartition4(ms) /\ Top(ms).st = "loop"
    /\ \E beyond \in BeyondVals(ms) : ms' = P4Iter(ms, beyond)
    /\ UNCHANGED <<mg, drv, nm>>

SortP4Tail ==
    /\ Running(ms) /\ UsesPartition4(ms) /\ Top(ms).st = "tail"
    /\ ms' = P4Tail(ms)
    /\ UNCHANGED <<mg, drv, nm>>

SortPRecurseLeft ==
    /\ Running(ms) /\ ~UsesPartition4(ms) /\ PAtLeft(Top(ms))
    /\ ms' = PRecurseLeft(ms)
    /\ UNCHANGED <<mg, drv, nm>>

SortPRecurseRight ==
    /\ Running(ms) /\ ~UsesPartition4(ms) /\ PAtRight(Top(ms))
    /\ ms' = PRecurseRight(ms)
    /\ UNCHANGED <<mg, drv, nm>>

SortPCopyIn ==
    /\ Running(ms) /\ ~UsesPartition4(ms) /\ PAtMerge(Top(ms))
    /\ ms' = PCopyIn(ms)
    /\ UNCHANGED <<mg, drv, nm>>

SortPIter ==
    /\ Running(ms) /\ ~UsesPartition4(ms) /\ Top(ms).st = "loop"
    /\ \E beyond \in BeyondVals(ms) : ms' = PIter(ms, beyond)
    /\ UNCHANGED <<mg, drv, nm>>

SortPTail ==
    /\ Running(ms) /\ ~UsesPartition4(ms) /\ Top(ms).st = "tail"
    /\ ms' = PTail(ms)
    /\ UNCHANGED <<mg, drv, nm>>

\* the comparator is handed a pointer behind the end of the mapping and the
\* read faults: the process is killed and the call never returns
SortFault ==
    /\ ReadsBeyond(ms)
    /\ ms' = [ms EXCEPT !.pc = "segv"]
    /\ UNCHANGED <<mg, drv, nm>>

SortMunmap ==
    /\ ms.pc = "unmap"
    /\ ms' = Munmap(ms)
    /\ UNCHANGED <<mg, drv, nm>>

SortStep ==
    \/ SortMmapOk \/ SortMmapFailed \/ SortSwitch
    \/ SortP4RecurseLeft \/ SortP4RecurseRight \/ SortP4CopyIn \/ SortP4Iter \/ SortP4Tail
    \/ SortPRecurseLeft \/ SortPRecurseRight \/ SortPCopyIn \/ SortPIter \/ SortPTail
    \/ SortFault \/ SortMunmap

\* ---------------------------------------- one call of mergesort_nonlibc
Init ==
    /\ ms \in SortCalls
    /\ mg = Idle
    /\ drv = Idle
    /\ nm = Idle

Next == SortStep

Spec == Init /\ [][Next]_vars

\* ------------------- mergesort_partition4 beside mergesort_partition(4)
\* One step of a running call of mergesort_partition4, and of a running call
\* of mergesort_partition: the step the activation on top of the stack is at.
P4Step(m, beyond) ==
    IF ~Running(m) THEN m
    ELSE CASE P4AtLeft(Top(m))     -> P4RecurseLeft(m)
           [] P4AtRight(Top(m))    -> P4RecurseRight(m)
           [] P4AtMerge(Top(m))    -> P4CopyIn(m)
           [] Top(m).st = "loop"   -> P4Iter(m, beyond)
           [] Top(m).st = "tail"   -> P4Tail(m)

PStep(m, beyond) ==
    IF ~Running(m) THEN m
    ELSE CASE PAtLeft(Top(m))      -> PRecurseLeft(m)
           [] PAtRight(Top(m))     -> PRecurseRight(m)
           [] PAtMerge(Top(m))     -> PCopyIn(m)
           [] Top(m).st = "loop"   -> PIter(m, beyond)
           [] Top(m).st = "tail"   -> PTail(m)

\* the two functions are called on equal buffers of 1..MaxN records of 4
\* bytes, each with a fresh scratch mapping, left = 0 and right = nmemb - 1
PartitionCalls == {Switch(MmapOk(c)) : c \in {x \in SortCallsOf(4) : x.nmemb >= 1}}

EqInit ==
    /\ ms \in PartitionCalls
    /\ mg = ms
    /\ drv = Idle
    /\ nm = Idle

\* both calls take their next step; what lies behind the two mappings
\* reads the same
EqStep ==
    /\ Running(ms) \/ Running(mg)
    /\ \E beyond \in BeyondVals(ms) \cup BeyondVals(mg) :
          /\ ms' = P4Step(ms, beyond)
          /\ mg' = PStep(mg, beyond)
    /\ UNCHANGED <<drv, nm>>

\* a read behind the end of the mapping faults in either call
EqFault ==
    /\ ReadsBeyond(ms) \/ ReadsBeyond(mg)
    /\ ms' = [ms EXCEPT !.pc = "segv"]
    /\ mg' = [mg EXCEPT !.pc = "segv"]
    /\ UNCHANGED <<drv, nm>>

EqNext == EqStep \/ EqFault

SpecEq == EqInit /\ [][EqNext]_vars

\* ------------------------------------------------------- stress_mergesort
\* the sort call the driver has made is between its entry and its return
InFlight(m) == m.pc \in {"call", "switch", "run", "unmap"}

\* lines 359-366 and 384-391: the verification loop finds an adjacent pair
\* out of order (*ptr > *(ptr + 1) after the forward sort, < after a
\* reverse sort)
OrderErrorFwd(recs) ==
    \E i \in 1..(Len(recs) - 1) : Int32(recs[i]) > Int32(recs[i + 1])

OrderErrorRev(recs) ==
    \E i \in 1..(Len(recs) - 1) : Int32(recs[i]) < Int32(recs[i + 1])

\* the comparator of the k-th sort of the loop body
PhaseCompar(k) == IF k = 1 THEN "fwd_int32" ELSE "rev_int32"

\* the arrangements of n int32 values the harness may leave in the buffer
\* (values whose bytes above the lowest are 0)
DrvBuffers(n) ==
    {b \in Buffers(n, 4) : (Len(b) = n) /\ (\A i \in 1..n : b[i][2] = 0)}

\* the driver after its settings are read (lines 292-314): n records of 4
\* bytes are to be sorted, do_jmp is true, SIGALRM has its old disposition
DrvStart(n, verify) ==
    [pc |-> "calloc", n |-> n, verify |-> verify, data |-> <<>>,
     do_jmp |-> TRUE, handler |-> FALSE, flag |-> TRUE, bogo |-> 0,
     phase |-> 0, reported |-> {}, hit |-> FALSE, rc |-> "none"]

\* stress_mergesort_handler, lines 279-282: the first SIGALRM clears do_jmp
\* and jumps back to the sigsetjmp of stress_mergesort; later ones return
HandlerReturns(d) == d

Handler(d) ==
    IF d.do_jmp
    THEN [d EXCEPT !.do_jmp = FALSE, !.pc = "jumped"]
    ELSE d

\* what the jump out of the handler leaves of the sort call it interrupts:
\* the activation records are gone, nothing of mergesort_nonlibc runs again
Abandon(m) == IF InFlight(m) THEN [m EXCEPT !.pc = "abandoned"] ELSE m

\* line 316: calloc of the data buffer
DrvCalloc ==
    /\ drv.pc = "calloc"
    /\ \/ drv' = [drv EXCEPT !.pc = "setjmp", !.data = [i \in 1..drv.n |-> Zeros(4)]]
       \/ drv' = [drv EXCEPT !.pc = "returned", !.rc = "EXIT_NO_RESOURCE"]
    /\ UNCHANGED <<ms, mg, nm>>

\* line 322: sigsetjmp returns 0 when called
DrvSetjmp ==
    /\ drv.pc = "setjmp"
    /\ drv' = [drv EXCEPT !.pc = "sighandler"]
    /\ UNCHANGED <<ms, mg, nm>>

\* lines 333-336: the handler is installed, or the driver gives up
DrvSighandler ==
    /\ drv.pc = "sighandler"
    /\ \/ drv' = [drv EXCEPT !.pc = "shuffle", !.handler = TRUE]
       \/ drv' = [drv EXCEPT !.pc = "returned", !.rc = "EXIT_FAILURE"]
    /\ UNCHANGED <<ms, mg, nm>>

\* lines 339 and 345: stress_sort_data_int32_init and _shuffle leave some
\* arrangement of values in the buffer
DrvShuffle ==
    /\ drv.pc = "shuffle"
    /\ \E recs \in DrvBuffers(drv.n) :
          drv' = [drv EXCEPT !.pc = "sort", !.phase = 1, !.data = recs]
    /\ UNCHANGED <<ms, mg, nm>>

\* lines 350, 375, 404: mergesort_func(data, n, sizeof(*data), compar)
DrvCallSort ==
    /\ drv.pc = "sort"
    /\ ms' = SortCall(drv.data, After(4), 4, PhaseCompar(drv.phase))
    /\ drv' = [drv EXCEPT !.pc = "in_sort"]
    /\ UNCHANGED <<mg, nm>>

\* the call has returned and any failure ends the loop
DrvSortReturnedStops ==
    /\ drv.pc = "in_sort"
    /\ ms.pc = "done"
    /\ LET recs == Out(ms)
           bad  == IF drv.phase = 1 THEN OrderErrorFwd(recs) ELSE OrderErrorRev(recs)
           rep  == IF ms.ret < 0 THEN {"sort_failed"}
                   ELSE IF drv.verify /\ bad THEN {"order"} ELSE {}
       IN  drv' = [drv EXCEPT !.pc = IF rep = {} THEN "check" ELSE "clear_jmp",
                              !.data = recs, !.reported = @ \cup rep]
    /\ ms' = Idle
    /\ UNCHANGED <<mg, nm>>

\* lines 350-368, 375-393, 404-423: the call has returned (nothing of it
\* is left); a failure is reported, a success is verified when
\* verification is on
DrvSortReturned ==
    /\ drv.pc = "in_sort"
    /\ ms.pc = "done"
    /\ LET recs == Out(ms)
           bad  == IF drv.phase = 1 THEN OrderErrorFwd(recs) ELSE OrderErrorRev(recs)
           rep  == IF ms.ret < 0 THEN {"sort_failed"}
                   ELSE IF drv.verify /\ bad THEN {"order"} ELSE {}
       IN  drv' = [drv EXCEPT !.pc = "check", !.data = recs,
                              !.reported = @ \cup rep]
    /\ ms' = Idle
    /\ UNCHANGED <<mg, nm>>

\* lines 369, 394, 424: if (!stress_continue_flag()) break
DrvCheck ==
    /\ drv.pc = "check"
    /\ drv' = [drv EXCEPT !.pc = IF ~drv.flag THEN "clear_jmp"
                                 ELSE IF drv.phase = 1 THEN "sort"
                                 ELSE IF drv.phase = 2 THEN "mangle"
                                 ELSE "bogo",
                          !.phase = IF drv.flag /\ drv.phase = 1 THEN 2 ELSE @]
    /\ UNCHANGED <<ms, mg, nm>>

\* line 398: stress_sort_data_int32_mangle reorders the buffer
DrvMangle ==
    /\ drv.pc = "mangle"
    /\ \E recs \in DrvBuffers(drv.n) :
          drv' = [drv EXCEPT !.pc = "sort", !.phase = 3, !.data = recs]
    /\ UNCHANGED <<ms, mg, nm>>

\* lines 427-428: stress_bogo_inc, then while (stress_continue(args)):
\* the flag is set and the bogo-op budget is not used up
DrvBogo ==
    /\ drv.pc = "bogo"
    /\ drv' = [drv EXCEPT !.bogo = @ + 1,
                          !.pc = IF drv.flag /\ (drv.bogo + 1 < MaxOps)
                                 THEN "shuffle" ELSE "clear_jmp"]
    /\ UNCHANGED <<ms, mg, nm>>

\* line 430: do_jmp = false
DrvClearJmp ==
    /\ drv.pc = "clear_jmp"
    /\ drv' = [drv EXCEPT !.pc = "restore", !.do_jmp = FALSE]
    /\ UNCHANGED <<ms, mg, nm>>

\* line 431, and line 327 after the jump: stress_sigrestore, then tidy
DrvRestore ==
    /\ drv.pc \in {"restore", "jumped"}
    /\ drv' = [drv EXCEPT !.pc = "tidy", !.handler = FALSE]
    /\ UNCHANGED <<ms, mg, nm>>

\* lines 433-442: metrics, free(data), return EXIT_SUCCESS
DrvTidy ==
    /\ drv.pc = "tidy"
    /\ drv' = [drv EXCEPT !.pc = "returned", !.rc = "EXIT_SUCCESS"]
    /\ UNCHANGED <<ms, mg, nm>>

\* SIGALRM is delivered while stress_mergesort_handler is installed (hit
\* records that one came with do_jmp set while a sort call was in flight)
Sigalrm ==
    /\ drv.handler
    /\ drv.pc # "killed"
    /\ drv' = [Handler(drv) EXCEPT !.hit = @ \/ (drv.do_jmp /\ InFlight(ms))]
    /\ ms' = IF drv'.pc # drv.pc THEN Abandon(ms) ELSE ms
    /\ UNCHANGED <<mg, nm>>

\* the harness clears the flag stress_continue_flag() reads
StopRequested ==
    /\ drv.pc \notin {"returned", "killed"}
    /\ drv.flag
    /\ drv' = [drv EXCEPT !.flag = FALSE]
    /\ UNCHANGED <<ms, mg, nm>>

\* the sort call faulted: the process is gone
DrvKilled ==
    /\ drv.pc = "in_sort"
    /\ ms.pc = "segv"
    /\ drv' = [drv EXCEPT !.pc = "killed"]
    /\ UNCHANGED <<ms, mg, nm>>

\* a step of the sort call the driver is in
DrvSortStep ==
    /\ drv.pc = "in_sort"
    /\ SortStep

DrvInit ==
    /\ drv \in {DrvStart(n, verify) : n \in 1..DrvMaxN, verify \in BOOLEAN}
    /\ ms = Idle
    /\ mg = Idle
    /\ nm = Idle

DrvNext ==
    \/ DrvCalloc \/ DrvSetjmp \/ DrvSighandler \/ DrvShuffle \/ DrvCallSort
    \/ DrvSortStep \/ DrvSortReturned \/ DrvCheck \/ DrvMangle \/ DrvBogo
    \/ DrvClearJmp \/ DrvRestore \/ DrvTidy \/ DrvKilled
    \/ Sigalrm \/ StopRequested

SpecDriver == DrvInit /\ [][DrvNext]_vars

\* ======================================================= NUMA node discovery
\* characters are their ASCII codes, as hex_to_int computes with them
Char_0 == 48
Char_9 == 57
Char_a == 97
Char_f == 102
Char_A == 65
Char_F == 70
Char_comma == 44
Char_space == 32
Char_tab == 9
Char_newline == 10
\* each hex digit stands for this many memory nodes
NibbleBits == 4
\* placement rounds of one pass of the stress_numa loop
Rounds == 16

\* NULL
Null == 0

HexChars == (Char_0..Char_9) \cup (Char_a..Char_f) \cup (Char_A..Char_F)

\* what a mask is written with
MaskChars == HexChars \cup {Char_comma}

\* what may follow "Mems_allowed:" and its separator on the line: mask
\* characters, a space, and a character that is no hex digit ('g')
LineChars == MaskChars \cup {Char_space, Char_f + 1}

\* hex_to_int(): 'A'..'F' are offset from 'F'
hex_to_int(ch) ==
    IF (ch >= Char_0) /\ (ch <= Char_9) THEN ch - Char_0
    ELSE IF (ch >= Char_a) /\ (ch <= Char_f) THEN ch - Char_a + 10
    ELSE IF (ch >= Char_A) /\ (ch <= Char_F) THEN ch - Char_F + 10
    ELSE -1

\* val & (1 << i)
BitSet(val, i) == (val \div (2 ^ i)) % 2 = 1

\* the Mems_allowed line from str on: the separator str points at, the
\* mask text, the newline that ends the line
StatusLine(mask) == <<Char_tab>> \o mask \o <<Char_newline>>

\* str, as an index into the line
Str == 1

\* stress_numa_get_mem_nodes() entered: n = 0, node_id = 0, tail = NULL,
\* *node_ptr = NULL; *max_nodes is not written yet
NumaCall(mask) ==
    [pc |-> "open", line |-> StatusLine(mask), ptr |-> 0, val |-> 0, i |-> 0,
     n |-> 0, node_id |-> 0, heap |-> <<>>, node_ptr |-> Null, tail |-> Null,
     ret |-> 0, max_nodes |-> "unset"]

Masks == UNION {[1..k -> LineChars] : k \in 0..MaxMaskLen}

NumaCalls == {NumaCall(mask) : mask \in Masks}

NumaReturnWith(r) == [nm EXCEPT !.pc = "returned", !.ret = r]

\* fopen("/proc/self/status") fails
NumaFopenFailed ==
    /\ nm.pc = "open"
    /\ nm' = NumaReturnWith(-1)
    /\ UNCHANGED <<ms, mg, drv>>

\* no line of the file starts with "Mems_allowed:"
NumaLineMissing ==
    /\ nm.pc = "open"
    /\ nm' = NumaReturnWith(-1)
    /\ UNCHANGED <<ms, mg, drv>>

\* the line is found: ptr = buffer + strlen(buffer) - 2
NumaLineFound ==
    /\ nm.pc = "open"
    /\ nm' = [nm EXCEPT !.pc = "loop", !.ptr = Len(nm.line) - 1]
    /\ UNCHANGED <<ms, mg, drv>>

\* while ((*ptr != ' ') && (ptr > str))
NumaLoopGuard == (nm.line[nm.ptr] # Char_space) /\ (nm.ptr > Str)

NumaSkipComma ==
    /\ nm.pc = "loop"
    /\ NumaLoopGuard
    /\ nm.line[nm.ptr] = Char_comma
    /\ nm' = [nm EXCEPT !.ptr = nm.ptr - 1]
    /\ UNCHANGED <<ms, mg, drv>>

NumaBadDigit ==
    /\ nm.pc = "loop"
    /\ NumaLoopGuard
    /\ nm.line[nm.ptr] # Char_comma
    /\ hex_to_int(nm.line[nm.ptr]) < 0
    /\ nm' = NumaReturnWith(-1)
    /\ UNCHANGED <<ms, mg, drv>>

NumaDigit ==
    /\ nm.pc = "loop"
    /\ NumaLoopGuard
    /\ nm.line[nm.ptr] # Char_comma
    /\ hex_to_int(nm.line[nm.ptr]) >= 0
    /\ nm' = [nm EXCEPT !.pc = "bits", !.val = hex_to_int(nm.line[nm.ptr]),
                        !.i = 0]
    /\ UNCHANGED <<ms, mg, drv>>

\* the new node goes in front of *node_ptr and the tail points at it
InsertNodeNoTailLink(h, head, tail, id) ==
    [heap |-> Append(h, [node_id |-> id, next |-> head]),
     node_ptr |-> Len(h) + 1,
     tail |-> IF tail = Null THEN Len(h) + 1 ELSE tail]

InsertNode(h, head, tail, id) ==
    LET node == Len(h) + 1
        h1 == Append(h, [node_id |-> id, next |-> head])
        t == IF tail = Null THEN node ELSE tail
    IN  [heap |-> [h1 EXCEPT ![t].next = node], node_ptr |-> node, tail |-> t]

NumaInsert ==
    /\ nm.pc = "bits"
    /\ nm.i < NibbleBits
    /\ BitSet(nm.val, nm.i)
    /\ LET r == InsertNode(nm.heap, nm.node_ptr, nm.tail, nm.node_id)
       IN  nm' = [nm EXCEPT !.heap = r.heap, !.node_ptr = r.node_ptr,
                            !.tail = r.tail, !.n = nm.n + 1,
                            !.node_id = nm.node_id + 1, !.i = nm.i + 1]
    /\ UNCHANGED <<ms, mg, drv>>

\* calloc() of the node fails
NumaCallocFailed ==
    /\ nm.pc = "bits"
    /\ nm.i < NibbleBits
    /\ BitSet(nm.val, nm.i)
    /\ nm' = NumaReturnWith(-1)
    /\ UNCHANGED <<ms, mg, drv>>

NumaBitClear ==
    /\ nm.pc = "bits"
    /\ nm.i < NibbleBits
    /\ ~BitSet(nm.val, nm.i)
    /\ nm' = [nm EXCEPT !.node_id = nm.node_id + 1, !.i = nm.i + 1]
    /\ UNCHANGED <<ms, mg, drv>>

NumaNextChar ==
    /\ nm.pc = "bits"
    /\ nm.i = NibbleBits
    /\ nm' = [nm EXCEPT !.pc = "loop", !.ptr = nm.ptr - 1]
    /\ UNCHANGED <<ms, mg, drv>>

\* *max_nodes = node_id; return n
NumaReturn ==
    /\ nm.pc = "loop"
    /\ ~NumaLoopGuard
    /\ nm' = [nm EXCEPT !.pc = "returned", !.ret = nm.n,
                        !.max_nodes = nm.node_id]
    /\ UNCHANGED <<ms, mg, drv>>

NumaInit ==
    /\ nm \in NumaCalls
    /\ ms = Idle
    /\ mg = Idle
    /\ drv = Idle

NumaNext ==
    \/ NumaFopenFailed \/ NumaLineMissing \/ NumaLineFound
    \/ NumaSkipComma \/ NumaBadDigit \/ NumaDigit
    \/ NumaInsert \/ NumaCallocFailed \/ NumaBitClear \/ NumaNextChar
    \/ NumaReturn

SpecNuma == NumaInit /\ [][NumaNext]_vars

\* ================================================================ stress_numa
\* the characters the masks of a whole run are written with: 'b', 'F', a
\* comma, and 'g' that is no hex digit
RunChars == {Char_a + 1, Char_F, Char_comma, Char_f + 1}

RunMasks == UNION {[1..k -> RunChars] : k \in 0..MaxRunMaskLen}

\* what a system call comes back with: success, or errno ENOSYS, EIO, or
\* another errno (EINVAL stands for all of them)
Outcomes == {"ok", "ENOSYS", "EIO", "EINVAL"}

\* the resources stress_numa acquires after the node list, in the order it
\* acquires them
Resources ==
    <<"node_mask", "old_node_mask", "status", "dest_nodes", "pages", "buf">>

ResourceNames == {Resources[i] : i \in 1..Len(Resources)}

\* the label a failed acquisition jumps to releases what was acquired
\* before it: the index of the last resource to release
ReleaseFromSame(idx) == idx

ReleaseFrom(idx) == idx - 1

\* lines 895-900, 923-928: get_mempolicy / set_mempolicy failed and errno is
\* not ENOSYS
PolicyFatal(e) == e \notin {"ok", "ENOSYS"}

\* lines 1029-1034, 1062-1067: mbind failed and errno is neither EIO nor
\* ENOSYS
MbindFatalOnEIO(e) == e \notin {"ok", "ENOSYS"}

MbindFatal(e) == e \notin {"ok", "EIO", "ENOSYS"}

\* lines 1186-1191: move_pages failed and errno is not ENOSYS
MovePagesNeverFatal(e) == FALSE

MovePagesFatal(e) == e \notin {"ok", "ENOSYS"}

\* lines 1025-1026, 1058-1059, 1119-1120: stress_set_numa_array(node_mask,
\* 0x00, ...) and STRESS_SETBIT(node_mask, id)
SetOnlyBitKeepsOld(mask, id) == mask \cup {id}

SetOnlyBit(mask, id) == {id}

\* n->node_id and n->next of the node at address a
NodeId(a) == nm.heap[a].node_id

NodeNext(a) == nm.heap[a].next

\* line 1113: n = n->next
AdvanceStays(a) == a

Advance(a) == NodeNext(a)

\* stress_numa entered with its settings read (lines 772-805): rc is
\* EXIT_FAILURE, nothing is acquired. fails, last, calls and hist record the
\* run's history: the pr_fail messages, the system call of the latest step
\* and its outcome, the node masks the latest step passed, and per migrate
\* step the node mbind was aimed at and the node migrate_pages was aimed at.
NumaRun(num_pages, shuffle_addr, shuffle_node, cap_sys_nice) ==
    [pc |-> "discover", num_pages |-> num_pages,
     numa_shuffle_addr |-> shuffle_addr, numa_shuffle_node |-> shuffle_node,
     cap_sys_nice |-> cap_sys_nice,
     rc |-> "EXIT_FAILURE", numa_nodes |-> 0, max_nodes |-> 0, n |-> Null,
     idx |-> 0, acquired |-> {}, released |-> [r \in ResourceNames |-> 0],
     freed |-> <<>>, fn |-> Null,
     node_mask |-> {}, by |-> "none", k |-> 0, j |-> 0, n_tmp |-> Null,
     pages |-> <<>>, dest_nodes |-> <<>>,
     flag |-> TRUE, bogo |-> 0,
     fails |-> {}, last |-> <<"none", "ok">>, calls |-> {}, hist |-> <<>>]

\* goto err / break / loop end: release everything from the buffer down
ToErr(d) == [d EXCEPT !.pc = "release", !.idx = Len(Resources)]

\* break, or the loop condition fails: rc = EXIT_SUCCESS, then err:
ToExit(d) == [ToErr(d) EXCEPT !.rc = "EXIT_SUCCESS"]

\* lines 806-812: the node list is in n; fewer than one node ends the run
RunDiscovered ==
    /\ drv.pc = "discover"
    /\ nm.pc = "returned"
    /\ LET d == [drv EXCEPT !.n = nm.node_ptr, !.numa_nodes = nm.ret,
                            !.freed = [a \in 1..Len(nm.heap) |-> 0]]
       IN  drv' = IF nm.ret < 1
                  THEN [d EXCEPT !.pc = "numa_free", !.rc = "EXIT_NO_RESOURCE",
                                 !.fn = nm.node_ptr]
                  ELSE [d EXCEPT !.pc = "alloc", !.idx = 1,
                                 !.max_nodes = nm.max_nodes]
    /\ UNCHANGED <<ms, mg, nm>>

\* lines 822-872: the calloc of an array, or the mmap of the buffer,
\* succeeds
RunAllocOk ==
    /\ drv.pc = "alloc"
    /\ LET r == Resources[drv.idx]
           d == [drv EXCEPT !.acquired = @ \cup {r}]
       IN  drv' = IF drv.idx < Len(Resources)
                  THEN [d EXCEPT !.idx = drv.idx + 1]
                  ELSE [d EXCEPT !.pc = "get_mempolicy", !.idx = 0,
                                 !.pages = [i \in 1..drv.num_pages |-> Null],
                                 !.dest_nodes = [i \in 1..drv.num_pages |-> 0]]
    /\ UNCHANGED <<ms, mg, nm>>

\* lines 824-829, 831-836, 839-844, 846-851, 853-858, 866-871: it fails
RunAllocFailed ==
    /\ drv.pc = "alloc"
    /\ drv' = [drv EXCEPT !.pc = "release", !.idx = ReleaseFrom(drv.idx),
                          !.rc = IF drv.idx = Len(Resources)
                                 THEN "exit_status" ELSE "EXIT_NO_RESOURCE"]
    /\ UNCHANGED <<ms, mg, nm>>

\* what get_mempolicy may leave in node_mask when it succeeds: of the
\* max_nodes bits none, one, or all
KernelMasks(d) ==
    {{}, 0..(d.max_nodes - 1)} \cup {{b} : b \in 0..(d.max_nodes - 1)}

\* if (!stress_continue_flag()) break; else go on at pc
CheckPoint(d, pc) == IF d.flag THEN [d EXCEPT !.pc = pc] ELSE ToExit(d)

\* lines 888-920: node_mask is cleared, get_mempolicy(MPOL_F_ADDR) is
\* checked, the further get_mempolicy calls are not; a call that succeeds
\* writes node_mask
RunGetMempolicy ==
    /\ drv.pc = "get_mempolicy"
    /\ \E e \in Outcomes :
          LET d == [drv EXCEPT !.node_mask = {}, !.by = "engine",
                               !.last = <<"get_mempolicy", e>>, !.calls = {}]
          IN  IF PolicyFatal(e)
              THEN drv' = ToErr([d EXCEPT !.fails = @ \cup {"get_mempolicy"}])
              ELSE \/ drv' = CheckPoint(d, "set_preferred")
                   \/ /\ e = "ok"
                      /\ \E w \in KernelMasks(drv) :
                            drv' = CheckPoint([d EXCEPT !.node_mask = w,
                                                        !.by = "kernel"],
                                              "set_preferred")
    /\ UNCHANGED <<ms, mg, nm>>

\* lines 922-933: set_mempolicy(MPOL_PREFERRED, NULL, max_nodes)
RunSetPreferred ==
    /\ drv.pc = "set_preferred"
    /\ \E e \in Outcomes :
          LET d == [drv EXCEPT !.last = <<"set_mempolicy", e>>, !.calls = {}]
          IN  drv' = IF PolicyFatal(e)
                     THEN ToErr([d EXCEPT !.fails = @ \cup {"set_mempolicy"}])
                     ELSE CheckPoint(d, "switch")
    /\ UNCHANGED <<ms, mg, nm>>

\* lines 935-1019: one of the twelve set_mempolicy variants, its result
\* dropped; case 0 passes NULL, the others node_mask as it stands
RunSwitch ==
    /\ drv.pc = "switch"
    /\ \E c \in 0..11 :
          drv' = [drv EXCEPT
                     !.pc = "mbind_strict", !.last = <<"none", "ok">>,
                     !.calls = IF c = 0 THEN {}
                               ELSE {[call |-> "set_mempolicy",
                                      mask |-> drv.node_mask, by |-> drv.by]}]
    /\ UNCHANGED <<ms, mg, nm>>

\* the mbind of the buffer to the node at the cursor, with the given pc to
\* go on at
Mbind(pc) ==
    \E e \in Outcomes :
        LET mask == SetOnlyBit(drv.node_mask, NodeId(drv.n))
            d    == [drv EXCEPT !.node_mask = mask, !.by = "engine",
                                !.last = <<"mbind", e>>,
                                !.calls = {[call |-> "mbind", mask |-> mask,
                                            by |-> "engine"]}]
        IN  drv' = IF MbindFatal(e)
                   THEN ToErr([d EXCEPT !.fails = @ \cup {"mbind"}])
                   ELSE CheckPoint(d, pc)

\* lines 1025-1041: mbind with MPOL_MF_STRICT
RunMbindStrict ==
    /\ drv.pc = "mbind_strict"
    /\ Mbind("mbind_default")
    /\ UNCHANGED <<ms, mg, nm>>

\* lines 1046-1074: set_mempolicy_home_node calls, then mbind with
\* MPOL_DEFAULT
RunMbindDefault ==
    /\ drv.pc = "mbind_default"
    /\ Mbind("mbind_invalid")
    /\ UNCHANGED <<ms, mg, nm>>

\* lines 1076-1110: mbind calls with invalid arguments, results dropped;
\* without CAP_SYS_NICE an mbind with MPOL_MF_MOVE_ALL that succeeds is
\* reported
RunMbindInvalid ==
    /\ drv.pc = "mbind_invalid"
    /\ \E e \in Outcomes :
          drv' = [drv EXCEPT
                     !.pc = "migrate", !.last = <<"none", "ok">>,
                     !.calls = {[call |-> "mbind", mask |-> drv.node_mask,
                                 by |-> drv.by]},
                     !.fails = IF ~drv.cap_sys_nice /\ (e = "ok")
                               THEN @ \cup {"mbind_capability"} ELSE @]
    /\ UNCHANGED <<ms, mg, nm>>

\* lines 1112-1142: the cursor moves to the next node, node_mask is rebuilt
\* for it, migrate_pages is called four times and every result is dropped
RunMigrate ==
    /\ drv.pc = "migrate"
    /\ \E e \in Outcomes :
          LET next == Advance(drv.n)
              mask == SetOnlyBit(drv.node_mask, NodeId(next))
              d    == [drv EXCEPT !.n = next, !.node_mask = mask,
                                  !.by = "engine",
                                  !.last = <<"migrate_pages", e>>,
                                  !.calls = {[call |-> "migrate_pages",
                                              mask |-> mask, by |-> "engine"]},
                                  !.hist = Append(@, <<drv.n, next>>)]
          IN  drv' = IF d.flag
                     THEN [d EXCEPT !.pc = "fill", !.n_tmp = next, !.j = 0]
                     ELSE ToExit(d)
    /\ UNCHANGED <<ms, mg, nm>>

RECURSIVE Fill(_, _, _, _, _, _)
\* lines 1147-1153: page i of the buffer and the id of the node at n_tmp go
\* to slot k, k wraps at num_pages, n_tmp moves on; pages are numbered from
\* 1 (Null is no page), slot k is element k + 1
Fill(pages, dest, k, nt, i, np) ==
    IF i >= np
    THEN [pages |-> pages, dest_nodes |-> dest, k |-> k, n_tmp |-> nt]
    ELSE Fill([pages EXCEPT ![k + 1] = i + 1],
              [dest EXCEPT ![k + 1] = NodeId(nt)],
              IF k + 1 >= np THEN 0 ELSE k + 1,
              NodeNext(nt), i + 1, np)

RECURSIVE SwapsOverwrite(_, _, _)
\* a shuffle that copies element ls[i] over element i
SwapsOverwrite(a, ls, i) ==
    IF i >= Len(a) THEN a
    ELSE SwapsOverwrite([a EXCEPT ![i + 1] = a[ls[i] + 1]], ls, i + 1)

RECURSIVE Swaps(_, _, _)
\* lines 1155-1162, 1165-1172: element i is swapped with element ls[i], for
\* i = 0 .. num_pages - 1
Swaps(a, ls, i) ==
    IF i >= Len(a) THEN a
    ELSE Swaps([a EXCEPT ![i + 1] = a[ls[i] + 1], ![ls[i] + 1] = a[i + 1]],
               ls, i + 1)

\* stress_mwc32modn(num_pages), once per element
Draws(np) == [0..(np - 1) -> 0..(np - 1)]

\* where a placement round goes after the fill, and after the address
\* shuffle
AfterFill(d) ==
    IF d.numa_shuffle_addr THEN "shuffle_addr"
    ELSE IF d.numa_shuffle_node THEN "shuffle_node" ELSE "move"

AfterShuffleAddr(d) == IF d.numa_shuffle_node THEN "shuffle_node" ELSE "move"

\* lines 1147-1153 of round j
RunFill ==
    /\ drv.pc = "fill"
    /\ LET r == Fill(drv.pages, drv.dest_nodes, drv.k, drv.n_tmp, 0,
                     drv.num_pages)
       IN  drv' = [drv EXCEPT !.pc = AfterFill(drv), !.pages = r.pages,
                              !.dest_nodes = r.dest_nodes, !.k = r.k,
                              !.n_tmp = r.n_tmp, !.calls = {},
                              !.last = <<"none", "ok">>]
    /\ UNCHANGED <<ms, mg, nm>>

\* lines 1154-1163
RunShuffleAddr ==
    /\ drv.pc = "shuffle_addr"
    /\ \E ls \in Draws(drv.num_pages) :
          drv' = [drv EXCEPT !.pc = AfterShuffleAddr(drv),
                             !.pages = Swaps(drv.pages, ls, 0)]
    /\ UNCHANGED <<ms, mg, nm>>

\* lines 1164-1173
RunShuffleNode ==
    /\ drv.pc = "shuffle_node"
    /\ \E ls \in Draws(drv.num_pages) :
          drv' = [drv EXCEPT !.pc = "move",
                             !.dest_nodes = Swaps(drv.dest_nodes, ls, 0)]
    /\ UNCHANGED <<ms, mg, nm>>

\* lines 1175-1196: k is bumped, move_pages is called with pages and
\* dest_nodes; the round loop goes on, is left by the flag, or ends
RunMovePages ==
    /\ drv.pc = "move"
    /\ \E e \in Outcomes :
          LET d == [drv EXCEPT !.k = IF drv.k + 1 >= drv.num_pages
                                     THEN 0 ELSE drv.k + 1,
                               !.last = <<"move_pages", e>>]
          IN  drv' = IF MovePagesFatal(e)
                     THEN ToErr([d EXCEPT !.fails = @ \cup {"move_pages"}])
                     ELSE IF ~d.flag THEN [d EXCEPT !.pc = "tail"]
                     ELSE IF d.j + 1 < Rounds
                     THEN [d EXCEPT !.pc = "fill", !.j = d.j + 1]
                     ELSE [d EXCEPT !.pc = "tail", !.j = d.j + 1]
    /\ UNCHANGED <<ms, mg, nm>>

\* lines 1198-1242: move_pages calls with pages[0] = buf and, for one of
\* them, dest_nodes[0] = ~0, results dropped; stress_bogo_inc; the loop
\* goes on while the flag is set and the bogo-op budget is not used up
RunTail ==
    /\ drv.pc = "tail"
    /\ LET d == [drv EXCEPT !.pages[1] = 1, !.dest_nodes[1] = -1,
                            !.bogo = drv.bogo + 1, !.last = <<"none", "ok">>]
       IN  drv' = IF d.flag /\ (d.bogo < MaxRunOps)
                  THEN [d EXCEPT !.pc = "get_mempolicy"]
                  ELSE ToExit(d)
    /\ UNCHANGED <<ms, mg, nm>>

\* lines 1256-1272: err: munmap(buf), then pages_free: ... node_mask_free:,
\* each label falling through to the next, down to numa_free: where
\* stress_numa_free_nodes(n) is called; what was in the released arrays
\* and in the locals of the loop is gone
RunRelease ==
    /\ drv.pc = "release"
    /\ drv' = [drv EXCEPT
                  !.released = [r \in ResourceNames |->
                                   IF \E i \in 1..drv.idx : Resources[i] = r
                                   THEN @[r] + 1 ELSE @[r]],
                  !.idx = 0, !.pc = "numa_free", !.fn = drv.n,
                  !.node_mask = {}, !.by = "none", !.pages = <<>>,
                  !.dest_nodes = <<>>, !.k = 0, !.j = 0, !.n_tmp = Null,
                  !.calls = {}, !.last = <<"none", "ok">>]
    /\ UNCHANGED <<ms, mg, nm>>

\* stress_numa_free_nodes, lines 659-667: the node is freed, the loop ends
\* when its next is the node the loop started at
RunFreeNode ==
    /\ drv.pc = "numa_free"
    /\ drv.fn # Null
    /\ LET next == NodeNext(drv.fn)
       IN  drv' = [drv EXCEPT !.freed[drv.fn] = @ + 1, !.fn = next,
                              !.pc = IF next = drv.n THEN "returned"
                                     ELSE "numa_free"]
    /\ UNCHANGED <<ms, mg, nm>>

\* line 659: while (n) with n NULL; line 1274: return rc
RunFreeEnd ==
    /\ drv.pc = "numa_free"
    /\ drv.fn = Null
    /\ drv' = [drv EXCEPT !.pc = "returned"]
    /\ UNCHANGED <<ms, mg, nm>>

\* the harness clears the flag stress_continue_flag() reads
RunStop ==
    /\ drv.pc \notin {"idle", "returned"}
    /\ drv.flag
    /\ drv' = [drv EXCEPT !.flag = FALSE]
    /\ UNCHANGED <<ms, mg, nm>>

\* stress_numa_get_mem_nodes running inside stress_numa
RunDiscovery ==
    /\ drv.pc = "discover"
    /\ NumaNext

RunInit ==
    /\ drv \in {NumaRun(np, sa, sn, cap) :
                   np \in 1..MaxPages, sa \in BOOLEAN, sn \in BOOLEAN,
                   cap \in BOOLEAN}
    /\ nm \in {NumaCall(mask) : mask \in RunMasks}
    /\ ms = Idle
    /\ mg = Idle

RunNext ==
    \/ RunDiscovery \/ RunDiscovered \/ RunAllocOk \/ RunAllocFailed
    \/ RunGetMempolicy \/ RunSetPreferred \/ RunSwitch
    \/ RunMbindStrict \/ RunMbindDefault \/ RunMbindInvalid \/ RunMigrate
    \/ RunFill \/ RunShuffleAddr \/ RunShuffleNode \/ RunMovePages \/ RunTail
    \/ RunRelease \/ RunFreeNode \/ RunFreeEnd \/ RunStop

SpecNumaRun == RunInit /\ [][RunNext]_vars

\* ================================================================ claims
Ordered(recs, compar) ==
    \A i \in 1..(Len(recs) - 1) : Compar(compar, recs[i], recs[i + 1]) <= 0

Occurrences(recs, r) == Cardinality({i \in 1..Len(recs) : recs[i] = r})

SameMultiset(a, b) ==
    /\ Len(a) = Len(b)
    /\ \A i \in 1..Len(a) : Occurrences(a, a[i]) = Occurrences(b, a[i])

ReturnedSuccess(m) == (m.pc = "done") /\ (m.ret = 0)

\* C1: after mergesort_nonlibc returns success, no adjacent pair of the
\* buffer violates the comparator: compar(buf[i], buf[i+1]) <= 0 for all i.
C1_SortedOnSuccess ==
    ReturnedSuccess(ms) => Ordered(Out(ms), ms.compar)

\* C1 witness: a successful call on a buffer of at least 3 records that was
\* not in comparator order on entry.
C1_Witness ==
    /\ ReturnedSuccess(ms)
    /\ ms.nmemb >= 3
    /\ ~Ordered(ms.in0, ms.compar)

\* C2: after mergesort_nonlibc returns success, the buffer holds exactly the
\* multiset of records it held on entry (nothing lost, duplicated or
\* replaced by a value that was not in the input).
C2_MultisetKept ==
    ReturnedSuccess(ms) => SameMultiset(Out(ms), ms.in0)

\* C3: a call with record_count 0 or 1 is a no-op returning success: unless
\* the system is out of memory it returns 0, the buffer is unchanged and
\* nothing outside the buffer is written.
C3_SmallIsNoOp ==
    ((ms.pc = "done") /\ (ms.nmemb <= 1) /\ (ms.err # "ENOMEM")) =>
        /\ ms.ret = 0
        /\ Out(ms) = ms.in0
        /\ \A w \in ms.wr : w[3] < ms.nmemb

\* C4: when the scratch mapping fails the call returns -1 with the caller's
\* memory untouched, and a call returns -1 only when the mapping failed.
C4_FailureOnlyFromMmap ==
    (ms.pc = "done") =>
        /\ ms.ret \in {0, -1}
        /\ (ms.ret = -1) <=> ms.failed
        /\ ms.failed => /\ ms.data = Flatten(ms.in0) \o After(ms.size)
                        /\ ms.wr = {}
                        /\ ~ms.mapped

\* C4 witness: a call on two or more records whose mapping failed.
C4_Witness ==
    /\ ms.pc = "done"
    /\ ms.failed
    /\ ms.ret = -1
    /\ ms.nmemb >= 2

\* the merge of two runs that takes the left front record only when it
\* compares below the right front record
RECURSIVE RefMerge(_, _, _)
RefMerge(a, b, compar) ==
    IF a = <<>> THEN b
    ELSE IF b = <<>> THEN a
    ELSE IF Compar(compar, Head(a), Head(b)) < 0
         THEN <<Head(a)>> \o RefMerge(Tail(a), b, compar)
         ELSE <<Head(b)>> \o RefMerge(a, Tail(b), compar)

\* both runs of the merge on top of the stack have an unconsumed record
BothLive(m) ==
    /\ Running(m) /\ (Top(m).st = "loop")
    /\ Top(m).lhs < Top(m).lhs_end
    /\ Top(m).rhs < Top(m).rhs_end

\* the record a turn of the merge loop wrote is the one the claim names
MergeStepRule(m, n) ==
    LET f == Top(m)
        l == Bytes(m.lhs, f.lhs, m.size)
        r == Bytes(m.lhs, f.rhs, m.size)
    IN  Bytes(n.data, f.base, m.size) = IF Compar(m.compar, l, r) < 0 THEN l ELSE r

\* the finished merge of [left, right] is the tie-to-the-right merge of the
\* two runs that were copied to the scratch region
MergeResultRule(m, n) ==
    LET f     == Top(m)
        nl    == f.lhs_end \div m.size
        nr    == (f.rhs_end - f.lhs_end) \div m.size
        left  == [i \in 1..nl |-> RecAt(m.lhs, i - 1, m.size)]
        right == [i \in 1..nr |-> RecAt(m.lhs, nl + i - 1, m.size)]
    IN  [i \in 1..(nl + nr) |-> RecAt(n.data, f.left + i - 1, m.size)]
            = RefMerge(left, right, m.compar)

\* C5: in every merge step in which both runs still have an unconsumed
\* record, the record written to the next output position is the left front
\* record iff compar(left, right) < 0 and the right front record otherwise;
\* so each finished merge has the records that compare equal in the order
\* right run first.
C5_MergeTakesRightOnTie ==
    [][/\ BothLive(ms) => MergeStepRule(ms, ms')
       /\ (Running(ms) /\ Top(ms).st = "tail") => MergeResultRule(ms, ms')]_vars

\* C5 witness: the last turn of the running merge compared two different
\* records that compare equal, with both runs live, and wrote the right one.
C5_Witness ==
    /\ Running(ms) /\ (Top(ms).st = "loop") /\ (ms.log # <<>>)
    /\ LET f == Top(ms)
           e == ms.log[Len(ms.log)]
       IN  /\ f.base > IDX(0, f.left, ms.size)
           /\ f.lhs < f.lhs_end
           /\ f.rhs > f.lhs_end
           /\ f.rhs <= f.rhs_end
           /\ e[1] # e[2]
           /\ Compar(ms.compar, e[1], e[2]) = 0
           /\ e[1] = Bytes(ms.lhs, f.lhs, ms.size)
           /\ Bytes(ms.data, f.base - ms.size, ms.size) = e[2]

\* C7: sorting a buffer that is already in comparator order leaves every
\* record at its position.
C7_Idempotent ==
    (ReturnedSuccess(ms) /\ Ordered(ms.in0, ms.compar)) => (Out(ms) = ms.in0)

\* C6: for record size 4, mergesort_partition4 and mergesort_partition
\* called with size = 4 on the same buffer with the same comparator leave
\* bit-identical memory and call the comparator on the same sequence of
\* record pairs (ms runs mergesort_partition4, mg mergesort_partition).
C6_PathsAgree ==
    /\ ms.data = mg.data
    /\ ms.log = mg.log
    /\ (ms.pc = "unmap") <=> (mg.pc = "unmap")

\* C6 witness: both calls have returned from a buffer of MaxN records that
\* was out of order and held two records that compare equal and differ.
C6_Witness ==
    /\ ms.pc = "unmap" /\ mg.pc = "unmap"
    /\ ms.nmemb >= 3
    /\ ~Ordered(ms.in0, ms.compar)
    /\ \E e \in {mg.log[i] : i \in 1..Len(mg.log)} :
           (e[1] # e[2]) /\ (Compar(mg.compar, e[1], e[2]) = 0)

\* C8: every scratch region mapped by mergesort_nonlibc has been unmapped
\* by the time stress_mergesort returns, on every exit path.
C8_ScratchReleased ==
    (drv.pc = "returned" /\ ms.pc # "idle") => ~ms.mapped

\* C9 as claimed: a sort call the driver has made always runs to completion
\* and returns before the driver goes on; it is never abandoned part-way.
C9_SortRunsToCompletion ==
    (drv.pc \notin {"in_sort", "killed"}) => (ms.pc \in {"idle", "done"})

\* C9 amended: a SIGALRM delivered with do_jmp set while a sort call is in
\* flight abandons that call where it stands (no further step of it runs,
\* its buffer and scratch mapping stay as they are); the driver continues
\* at the sigsetjmp point, restores the signal disposition, goes to tidy
\* without reaching another check point and returns EXIT_SUCCESS.
C9_AlarmAbandonsSort ==
    [][/\ drv'.hit => /\ ms'.pc = "abandoned"
                      /\ drv'.pc \in {"jumped", "tidy", "returned"}
                      /\ ~drv'.do_jmp
                      /\ (drv'.pc = "returned") => (drv'.rc = "EXIT_SUCCESS")
       /\ (ms.pc = "abandoned") => (ms' = ms)
       /\ (drv'.hit /\ ~drv.hit) => /\ InFlight(ms)
                                   /\ ms' = [ms EXCEPT !.pc = "abandoned"]]_vars

\* C9 witness: the driver has returned after a SIGALRM cut a sort call
\* inside its merge loop, the buffer changed and not yet in order.
C9_Witness ==
    /\ drv.pc = "returned"
    /\ drv.hit
    /\ ms.pc = "abandoned"
    /\ ms.stack # <<>>
    /\ Top(ms).st = "loop"
    /\ Out(ms) # ms.in0
    /\ ~Ordered(Out(ms), ms.compar)

\* the value of a hex digit, as the mask is meant to be read
HexValue(ch) ==
    IF ch \in Char_0..Char_9 THEN ch - Char_0
    ELSE IF ch \in Char_a..Char_f THEN ch - Char_a + 10
    ELSE ch - Char_A + 10

IsHexChar(ch) == ch \in HexChars

\* the mask text of the line, and its digits without the commas
MaskOf(line) == SubSeq(line, 2, Len(line) - 1)

DigitsOf(line) == SelectSeq(MaskOf(line), IsHexChar)

\* positions of the set bits, counted from the rightmost digit
SetBits(line) ==
    LET d == DigitsOf(line)
    IN  {NibbleBits * k + b : k \in 0..(Len(d) - 1), b \in 0..(NibbleBits - 1)}
        \cap {p \in 0..(NibbleBits * Len(d)) :
                 /\ p \div NibbleBits < Len(d)
                 /\ BitSet(HexValue(d[Len(d) - (p \div NibbleBits)]),
                           p % NibbleBits)}

RECURSIVE Walk(_, _, _)
\* the nodes met following next from node a for at most k steps
Walk(h, a, k) ==
    IF (a = Null) \/ (k = 0) THEN {} ELSE {a} \cup Walk(h, h[a].next, k - 1)

\* the entries of the list *node_ptr heads
ListNodes(c) == Walk(c.heap, c.node_ptr, Len(c.heap))

ListIds(c) == {c.heap[a].node_id : a \in ListNodes(c)}

IsMask(line) == \A k \in 1..Len(MaskOf(line)) : MaskOf(line)[k] \in MaskChars

\* C10: for a mask text of hex digits (0-9, a-f, A-F) and commas,
\* stress_numa_get_mem_nodes returns the number of set bits and the list
\* has one entry per set bit, its node_id the bit's position counted from
\* the rightmost digit, and no other entry.
C10_NodesAreSetBits ==
    (nm.pc = "returned" /\ nm.ret >= 0 /\ IsMask(nm.line)) =>
        /\ nm.ret = Cardinality(SetBits(nm.line))
        /\ Cardinality(ListNodes(nm)) = nm.ret
        /\ Len(nm.heap) = nm.ret
        /\ ListIds(nm) = SetBits(nm.line)

RECURSIVE NthNext(_, _, _)
\* the node reached from node a by following next k times
NthNext(h, a, k) ==
    IF (k = 0) \/ (a = Null) THEN a ELSE NthNext(h, h[a].next, k - 1)

\* C11: after every node insertion of stress_numa_get_mem_nodes the list is
\* one cycle: no next pointer is null, every inserted node is on the cycle
\* that *node_ptr is on, and following next from any node comes back to it
\* after exactly count steps and not before.
C11_ListIsOneCycle ==
    (nm.pc # "idle" /\ nm.heap # <<>>) =>
        LET h     == nm.heap
            count == Len(h)
        IN  /\ nm.n = count
            /\ \A a \in 1..count : h[a].next # Null
            /\ Walk(h, nm.node_ptr, count) = 1..count
            /\ \A a \in 1..count :
                  /\ NthNext(h, a, count) = a
                  /\ \A k \in 1..(count - 1) : NthNext(h, a, k) # a

\* C11 witness: a call has returned a list of three or more nodes
C11_Witness ==
    /\ nm.pc = "returned"
    /\ nm.ret >= 3
    /\ Len(nm.heap) = nm.ret

\* C17: during the merge of [left, right] the partition functions write
\* only the records left..right of the caller's buffer and read only the
\* scratch records 0..(right - left) that the copy-in of this merge filled.
C17_MergeStaysInRange ==
    (ms.pc # "idle") =>
        /\ \A w \in ms.wr : (w[1] <= w[3]) /\ (w[3] <= w[2])
        /\ \A r \in ms.rd : (0 <= r[3]) /\ (r[3] <= r[2] - r[1])

\* C14: in stress_mergesort a failed sort call or an ordering violation is
\* reported and the run goes on: the reporting step leads to the next
\* stress_continue_flag check point, the check point with the flag set
\* leads to the next phase, and the stressor returns EXIT_SUCCESS.
C14_FailuresDoNotStopRun ==
    [][/\ (drv'.reported # drv.reported) => (drv'.pc = "check")
       /\ (drv.pc = "check" /\ drv.flag /\ drv'.pc \notin {"check", "jumped"}) =>
             /\ drv'.pc \in {"sort", "mangle", "bogo"}
             /\ drv'.pc = (IF drv.phase = 1 THEN "sort"
                           ELSE IF drv.phase = 2 THEN "mangle" ELSE "bogo")
       /\ (drv'.pc = "returned" /\ drv'.reported # {}) =>
             (drv'.rc = "EXIT_SUCCESS")]_vars

\* C14 witness: the forward sort of the first loop pass failed and was
\* reported, and the driver stands at its reverse sort
C14_Witness ==
    /\ drv.pc = "sort"
    /\ drv.phase = 2
    /\ drv.bogo = 0
    /\ "sort_failed" \in drv.reported

\* ------------------------------------------------------ claims on stress_numa
\* a run of stress_numa is past its node discovery
InRun == drv.pc \notin {"idle", "discover"}

\* the run has left its loop for good
Ending == drv.pc \in {"release", "numa_free", "returned"}

\* the loop was left by break or by its condition, not by goto err
LeftByFlag == (drv.pc = "release") /\ (drv.rc = "EXIT_SUCCESS") /\ ~drv.flag

\* the ids of the nodes the discovery put on the list
DiscoveredIds == {nm.heap[a].node_id : a \in 1..Len(nm.heap)}

\* the outcome is a failure other than 'not supported'
Failure(e) == e \notin {"ok", "ENOSYS"}

\* C12: a migrate_pages or move_pages call of stress_numa that fails with
\* an error other than ENOSYS is logged as a failure and does not stop the
\* run.
C12_PageMoveFailuresOnlyLogged ==
    (InRun /\ drv.last[1] \in {"migrate_pages", "move_pages"}
           /\ Failure(drv.last[2])) =>
        /\ drv.last[1] \in drv.fails
        /\ (drv.pc \in {"fill", "tail"}) \/ LeftByFlag

\* C12 amended: every result of migrate_pages is dropped, nothing is logged
\* and the pass goes on to its placement rounds (or leaves by the flag); a
\* move_pages call of a placement round that fails with an error other than
\* ENOSYS is logged and ends the run: control goes to err, no further step
\* of the loop runs and stress_numa returns EXIT_FAILURE.
C12_MovePagesFailureEndsRun ==
    InRun =>
        /\ "migrate_pages" \notin drv.fails
        /\ (drv.last[1] = "migrate_pages") =>
              ((drv.pc = "fill") \/ LeftByFlag)
        /\ (drv.last[1] = "move_pages" /\ Failure(drv.last[2])) =>
              /\ "move_pages" \in drv.fails
              /\ drv.pc = "release"
        /\ (drv.last[1] = "move_pages" /\ ~Failure(drv.last[2])) =>
              /\ "move_pages" \notin drv.fails
              /\ drv.pc \in {"fill", "tail"}
        /\ ("move_pages" \in drv.fails) =>
              (Ending /\ drv.rc = "EXIT_FAILURE")

\* C12 witness: a run whose second or later pass had move_pages fail has
\* returned
C12_Witness ==
    /\ drv.pc = "returned"
    /\ "move_pages" \in drv.fails
    /\ drv.rc = "EXIT_FAILURE"
    /\ drv.bogo >= 1

\* C13: a core policy call (get_mempolicy on the buffer, set_mempolicy
\* MPOL_PREFERRED, mbind of the buffer) that fails with any error other
\* than ENOSYS aborts the pass and the run, which returns a failure status.
C13_PolicyFailureAborts ==
    (InRun /\ drv.last[1] \in {"get_mempolicy", "set_mempolicy", "mbind"}
           /\ Failure(drv.last[2])) =>
        /\ drv.pc = "release"
        /\ drv.rc = "EXIT_FAILURE"

\* C13 amended: get_mempolicy on the buffer and set_mempolicy MPOL_PREFERRED
\* abort the run on any error other than ENOSYS, the two mbind calls of the
\* buffer on any error other than ENOSYS and EIO; mbind failing with EIO is
\* not logged and the pass goes on. After an abort no further step of the
\* loop runs and stress_numa returns EXIT_FAILURE.
C13_PolicyFailureAbortsButEIO ==
    InRun =>
        /\ (drv.last[1] \in {"get_mempolicy", "set_mempolicy"}
               /\ Failure(drv.last[2])) =>
              /\ drv.last[1] \in drv.fails
              /\ drv.pc = "release"
        /\ (drv.last[1] = "mbind" /\ Failure(drv.last[2])
               /\ drv.last[2] # "EIO") =>
              /\ "mbind" \in drv.fails
              /\ drv.pc = "release"
        /\ (drv.last[1] = "mbind" /\ drv.last[2] = "EIO") =>
              /\ "mbind" \notin drv.fails
              /\ (drv.pc \in {"mbind_default", "mbind_invalid"}) \/ LeftByFlag
        /\ (drv.fails \cap {"get_mempolicy", "set_mempolicy", "mbind"} # {}) =>
              (Ending /\ drv.rc = "EXIT_FAILURE")

\* C13 witness: a run whose second or later pass had mbind fail with an
\* error other than EIO and ENOSYS has returned
C13_Witness ==
    /\ drv.pc = "returned"
    /\ "mbind" \in drv.fails
    /\ drv.rc = "EXIT_FAILURE"
    /\ drv.bogo >= 1

\* C15: every node mask passed to a policy-setting call that takes a target
\* mask was cleared and rebuilt by the engine since it was last written by
\* anyone, and its set bits are ids of discovered nodes, each < max_nodes.
C15_MasksRebuiltByEngine ==
    InRun =>
        \A c \in drv.calls :
            /\ c.by = "engine"
            /\ c.mask \subseteq DiscoveredIds
            /\ \A b \in c.mask : b < drv.max_nodes

\* C15 amended: the mask passed to mbind and to migrate_pages as the new
\* nodes was cleared and rebuilt by the engine since it was last written:
\* it holds the one bit of the node at the cursor, a discovered id below
\* max_nodes. The mask passed to the set_mempolicy variants of the switch
\* is node_mask as the get_mempolicy calls left it: cleared by the engine
\* with no bit set since, or written by the kernel.
C15_MbindAndMigrateMasksRebuilt ==
    InRun =>
        \A c \in drv.calls :
            /\ (c.call \in {"mbind", "migrate_pages"}) =>
                  /\ c.by = "engine"
                  /\ c.mask = {NodeId(drv.n)}
                  /\ NodeId(drv.n) \in DiscoveredIds
                  /\ NodeId(drv.n) < drv.max_nodes
            /\ (c.call = "set_mempolicy") =>
                  /\ c.by \in {"engine", "kernel"}
                  /\ (c.by = "engine") => (c.mask = {})
                  /\ \A b \in c.mask : b < drv.max_nodes

\* C15 witness: the switch has passed set_mempolicy a mask the kernel
\* wrote, with a bit set that is the id of no discovered node
C15_Witness ==
    /\ drv.pc = "mbind_strict"
    /\ \E c \in drv.calls :
          /\ c.call = "set_mempolicy"
          /\ c.by = "kernel"
          /\ ~(c.mask \subseteq DiscoveredIds)

\* C16: the cursor advances by exactly one position of the circular list
\* per pass that reaches the migrate step, so over any numa_nodes
\* consecutive such passes every discovered node is the mbind target
\* exactly once and the migrate target exactly once.
C16_RoundRobin ==
    InRun =>
        LET h == drv.hist
            c == drv.numa_nodes
        IN  /\ \A t \in 1..Len(h) : h[t][2] = NodeNext(h[t][1])
            /\ \A t \in 1..(Len(h) - 1) : h[t + 1][1] = h[t][2]
            /\ (Len(h) > 0) => (h[Len(h)][2] = drv.n)
            /\ \A s \in (IF Len(h) > 0 THEN 1..(Len(h) - c + 1) ELSE {}) :
                  /\ {NodeId(h[t][1]) : t \in s..(s + c - 1)} = DiscoveredIds
                  /\ {NodeId(h[t][2]) : t \in s..(s + c - 1)} = DiscoveredIds
                  /\ Cardinality(DiscoveredIds) = c

\* C16 witness: three passes over a list of three nodes have reached the
\* migrate step
C16_Witness ==
    /\ InRun
    /\ drv.numa_nodes >= 3
    /\ Len(drv.hist) >= drv.numa_nodes

\* pages holds every page of the buffer once
AllPagesOnce(pages, np) ==
    /\ Len(pages) = np
    /\ {pages[i] : i \in 1..np} = 1..np

\* C18: in each of the 16 placement rounds k stays in [0, num_pages); at
\* the move_pages call pages[] holds every page of the buffer exactly once
\* and every dest_nodes[] entry is a discovered node's id; the address
\* shuffle only permutes pages[] and leaves dest_nodes[] alone, the node
\* shuffle only permutes dest_nodes[] and leaves pages[] alone.
C18_PlacementArrays ==
    [][/\ (drv'.pc \notin {"idle", "discover"}) =>
             /\ (0 <= drv'.k) /\ (drv'.k < drv'.num_pages)
             /\ (drv'.pc \in {"fill", "shuffle_addr", "shuffle_node", "move"}) =>
                   (drv'.j < Rounds)
             /\ (drv'.pc = "move") =>
                   /\ AllPagesOnce(drv'.pages, drv'.num_pages)
                   /\ Len(drv'.dest_nodes) = drv'.num_pages
                   /\ \A i \in 1..drv'.num_pages :
                         drv'.dest_nodes[i] \in DiscoveredIds
       /\ (drv.pc = "shuffle_addr" /\ drv'.pc # "shuffle_addr") =>
             /\ drv'.dest_nodes = drv.dest_nodes
             /\ SameMultiset(drv'.pages, drv.pages)
       /\ (drv.pc = "shuffle_node" /\ drv'.pc # "shuffle_node") =>
             /\ drv'.pages = drv.pages
             /\ SameMultiset(drv'.dest_nodes, drv.dest_nodes)]_vars

\* C18 witness: the last placement round of a pass stands at its move_pages
\* call with both shuffles on, the pages out of their order and two nodes
\* among the destinations
C18_Witness ==
    /\ drv.pc = "move"
    /\ drv.j = Rounds - 1
    /\ drv.numa_shuffle_addr /\ drv.numa_shuffle_node
    /\ drv.num_pages >= 2
    /\ drv.pages[1] # 1
    /\ drv.dest_nodes[1] # drv.dest_nodes[2]

\* C19: on every exit path of stress_numa each resource acquired so far is
\* released exactly once and nothing never acquired is released;
\* stress_numa_free_nodes, started at the node the cursor has reached,
\* frees every node of the list exactly once and never comes to a node it
\* has freed.
C19_ReleasedExactlyOnce ==
    InRun =>
        /\ \A r \in ResourceNames :
              /\ drv.released[r] <= 1
              /\ (drv.released[r] = 1) => (r \in drv.acquired)
        /\ DOMAIN drv.freed = 1..Len(nm.heap)
        /\ \A a \in 1..Len(nm.heap) : drv.freed[a] <= 1
        /\ (drv.pc = "numa_free" /\ drv.fn # Null) => (drv.freed[drv.fn] = 0)
        /\ (drv.pc \notin {"numa_free", "returned"}) =>
              (\A a \in 1..Len(nm.heap) : drv.freed[a] = 0)
        /\ (drv.pc = "returned") =>
              /\ \A r \in ResourceNames :
                    drv.released[r] = (IF r \in drv.acquired THEN 1 ELSE 0)
              /\ \A a \in 1..Len(nm.heap) : drv.freed[a] = 1

\* C19 witness: a run that acquired everything and moved its cursor off the
\* head of a list of two or more nodes has returned
C19_Witness ==
    /\ drv.pc = "returned"
    /\ drv.acquired = ResourceNames
    /\ Len(nm.heap) >= 2
    /\ drv.n # nm.node_ptr

====
